---- MODULE Spec2Model ----
(***************************************************************************)
(* A model of the article ingestion-and-ranking pipeline:                  *)
(*   feedly.py      get_feedly_articles / refresh_access_token             *)
(*   rank_openai.py process_batch / batch_gpt_scoring /                    *)
(*                  generate_bullet_points_for_top_articles                *)
(*   main.py        fetch_and_process_articles                             *)
(*   app.py         the "Fetch New Articles" button                        *)
(* Each stage has its own specification (SpecFetch, SpecScore, ...); the   *)
(* variables of the stages a specification does not run stay at their      *)
(* initial value.                                                          *)
(***************************************************************************)
EXTENDS Integers, Sequences, FiniteSets, TLC

VARIABLES
    \* ---- get_feedly_articles: locals and parameters
    fpc,              \* "top" (line 90), "send" (line 95), "returned", "raised"
    access_token,     \* 0: the caller's token; k > 0: the token of the k-th refresh
    token_expiry,     \* epoch seconds
    continuation,     \* "None", "" or a cursor
    all_articles,     \* sequence of item ids
    batch_count,
    delivered,        \* what the caller receives: the returned list, <<>> before
    \* ---- environment of the fetch
    now,              \* time.time()
    nextItem,         \* id of the next item the provider serves
    \* ---- observation of the fetch
    refreshes,        \* refresh_access_token calls that succeeded
    refreshCalls,     \* refresh_access_token calls made
    nreq,             \* page requests sent
    lastReq,          \* the last request sent and its answer (see Request)
    prevReq,          \* the request before it, in brief (see Brief)
    retries,          \* times the last request sent was re-sent after a 401 before
    received,         \* concatenation of the items of the 200 responses
    check,            \* the last expiry check (line 91): see Checked
    \* ---- process_batch on one reply (lines 165-182)
    p_pc,             \* "call", "loop", "returned"
    p_reply,          \* ids of the lines the model replied (see ParseLines)
    p_n,              \* len(batch.summaries)
    p_lines,          \* reply.strip().split('\n')
    p_i,              \* lines consumed
    p_scores,         \* scores
    p_prev,           \* scores before the last line consumed
    \* ---- batch_gpt_scoring (lines 244-289)
    s_pc,             \* "loop" (line 251), "parse" (in process_batch), "returned"
    df,               \* the rows: article ids (index labels) in row order
    has_col,          \* df has a GPT_Pertinence column
    GPT_Pertinence,   \* the column, by article id
    batch_size,
    scores,           \* line 247
    b,                \* batches completed
    batch_scores,     \* the scores list of process_batch (line 165)
    s_prev,           \* batch_scores before the last line consumed
    s_line,           \* the last line consumed (see ScoreLines), 0: none
    s_nlines,         \* lines of the reply consumed
    s_failed,         \* the batch number whose call raised, 0: none
    s_submitted,      \* the batches passed to process_batch (see ArticleBatch)
    s_sleeps,         \* time.sleep(RATE_LIMIT_DELAY) calls (line 278)
    \* ---- generate_bullet_points_for_top_articles (lines 303-327)
    e_pc,             \* "select" (line 305), "loop" (line 310), "returned"
    e_has_col,        \* the frame has a GPT_Pertinence column
    e_scores,         \* GPT_Pertinence of the rows, in row order
    Bullet_Points,    \* the Bullet_Points cell of each row
    top_articles,     \* line 305: the rows selected
    e_k,              \* iterations of the loop of line 310 completed
    e_attempted,      \* rows generate_bullet_points_summary was called for
    e_failed,         \* rows for which its call of the model raised
    \* ---- app.py main, the "Fetch New Articles" button (lines 240-267)
    a_pc,             \* "idle" (no click in progress), or where
                      \* fetch_and_process_articles is: "fetch" (main.py line
                      \* 98), "score" (line 125), "enrich" (line 129)
    articles_df,      \* st.session_state.articles_df (see NoFrame)
    linkedin_posts,   \* keys of st.session_state.linkedin_posts
    before,           \* the session state when the button was clicked
    n_errors,         \* st.error messages shown since the click
    \* ---- main.py fetch_and_process_articles (lines 96-135)
    m_articles,       \* articles: the Title of each raw item
    m_df,             \* df
    m_result,         \* "none", "returned", "raised"
    m_failed          \* a scoring batch raised in this run

fetchVars == <<fpc, access_token, token_expiry, continuation, all_articles,
               batch_count, delivered, now, nextItem, refreshes, refreshCalls,
               nreq, lastReq, prevReq, retries, received, check>>

parseVars == <<p_pc, p_reply, p_n, p_lines, p_i, p_scores, p_prev>>

scoreVars == <<s_pc, df, has_col, GPT_Pertinence, batch_size, scores, b,
               batch_scores, s_prev, s_line, s_nlines, s_failed, s_submitted,
               s_sleeps>>

enrichVars == <<e_pc, e_has_col, e_scores, Bullet_Points, top_articles, e_k,
                e_attempted, e_failed>>

appVars == <<a_pc, articles_df, linkedin_posts, before, n_errors, m_articles,
            m_df, m_result, m_failed>>

vars == <<fetchVars, parseVars, scoreVars, enrichVars, appVars>>

notFetch == <<parseVars, scoreVars, enrichVars, appVars>>
notParse == <<fetchVars, scoreVars, enrichVars, appVars>>
notScore == <<fetchVars, parseVars, enrichVars, appVars>>
notEnrich == <<fetchVars, parseVars, scoreVars, appVars>>
notApp == <<fetchVars, parseVars, scoreVars, enrichVars>>

\* ------------------------------------------------------------------ bounds
MaxTime == 1
MaxRequests == 3
MaxPageItems == 2
MaxExpiresIn == 1
MaxReplyLines == 5
MaxBatchLen == 4
MaxArticles == 4
MaxBatchSize == 3
MaxLines == 2
MaxRows == 6
MaxItems == 3

\* ------------------------------------------------------- program constants
DEFAULT_TOKEN_EXPIRY == 3600
\* df['GPT_Pertinence'] > 7 and .head(5), rank_openai.py line 305
PERTINENCE_THRESHOLD == 7
HEAD_ROWS == 5
\* batch_size: int = 15, rank_openai.py line 232
DEFAULT_BATCH_SIZE == 15

\* ------------------------------------------------------------------ values
None == "None"

\* Continuation values a response may carry: absent, an empty string, a cursor.
Continuations == {None, "", "c1", "c2"}

\* Python truthiness of a continuation value (lines 105, 127).
Truthy(c) == c # None /\ c # ""

Range(k, n) == [i \in 1..n |-> k + i - 1]

\* The body of an answer that is not a page: with or without items.
RejectedItems == {<<>>, <<0>>}

\* ------------------------------------------------------------ Python text
\* A text is a sequence of one-character strings.
DigitVal ==
    [c \in {"0", "1", "2", "3", "4", "5", "6", "7", "8", "9"} |->
        CASE c = "0" -> 0 [] c = "1" -> 1 [] c = "2" -> 2 [] c = "3" -> 3
          [] c = "4" -> 4 [] c = "5" -> 5 [] c = "6" -> 6 [] c = "7" -> 7
          [] c = "8" -> 8 [] c = "9" -> 9]
IsDigit(c) == c \in DOMAIN DigitVal
IsSpace(c) == c \in {" ", "\n", "\t"}
Article == <<"A", "r", "t", "i", "c", "l", "e">>

\* str.strip()
RECURSIVE LStrip(_)
LStrip(s) == IF s # <<>> /\ IsSpace(Head(s)) THEN LStrip(Tail(s)) ELSE s
RECURSIVE RStrip(_)
RStrip(s) ==
    IF s # <<>> /\ IsSpace(s[Len(s)]) THEN RStrip(SubSeq(s, 1, Len(s) - 1)) ELSE s
PyStrip(s) == RStrip(LStrip(s))

\* sep in s
Contains(s, sep) == \E i \in 1..Len(s) : s[i] = sep

\* str.split(sep) for a one-character sep: the pieces between the separators.
RECURSIVE PySplit(_, _)
PySplit(s, sep) ==
    LET at == {j \in 1..Len(s) : s[j] = sep} IN
    IF at = {} THEN <<s>>
    ELSE LET i == CHOOSE j \in at : \A k \in at : j <= k
         IN <<SubSeq(s, 1, i - 1)>> \o PySplit(SubSeq(s, i + 1, Len(s)), sep)

StartsWith(s, w) == Len(s) >= Len(w) /\ SubSeq(s, 1, Len(w)) = w

\* str.replace(w, ""): every occurrence of w, left to right, removed.
RECURSIVE PyRemove(_, _)
PyRemove(s, w) ==
    IF s = <<>> THEN <<>>
    ELSE IF StartsWith(s, w) THEN PyRemove(SubSeq(s, Len(w) + 1, Len(s)), w)
    ELSE <<Head(s)>> \o PyRemove(Tail(s), w)

\* The value of a run of decimal digits.
RECURSIVE DigitsVal(_)
DigitsVal(s) ==
    IF s = <<>> THEN 0
    ELSE 10 * DigitsVal(SubSeq(s, 1, Len(s) - 1)) + DigitVal[s[Len(s)]]

\* int(s): surrounding whitespace and one sign allowed, then digits only;
\* anything else is a ValueError (ok = FALSE).
PyInt(s) ==
    LET t == PyStrip(s)
        signed == t # <<>> /\ Head(t) \in {"-", "+"}
        d == IF signed THEN Tail(t) ELSE t
    IN IF d # <<>> /\ \A i \in 1..Len(d) : IsDigit(d[i])
       THEN [ok |-> TRUE,
             val |-> IF signed /\ Head(t) = "-" THEN 0 - DigitsVal(d)
                     ELSE DigitsVal(d)]
       ELSE [ok |-> FALSE, val |-> 0]

\* re.findall(r'\d+', s)[0]: the first maximal run of digits, <<>> if none.
RECURSIVE TakeDigits(_)
TakeDigits(s) ==
    IF s # <<>> /\ IsDigit(Head(s)) THEN <<Head(s)>> \o TakeDigits(Tail(s))
    ELSE <<>>
RECURSIVE FirstNumber(_)
FirstNumber(s) ==
    IF s = <<>> THEN <<>>
    ELSE IF IsDigit(Head(s)) THEN TakeDigits(s)
    ELSE FirstNumber(Tail(s))

\* "\n".join(lines)
RECURSIVE Join(_)
Join(lines) ==
    IF lines = <<>> THEN <<>>
    ELSE IF Len(lines) = 1 THEN lines[1]
    ELSE lines[1] \o <<"\n">> \o Join(Tail(lines))

\* ------------------------------------------------------------ process_batch
\* None in a list of scores.
NoScore == -1

\* [None] * n
Nones(n) == [i \in 1..n |-> NoScore]

\* scores[idx] = score on a Python list: a negative idx counts from the end,
\* an idx outside [-len, len) is an IndexError (ok = FALSE).
ListSet(lst, idx, score) ==
    LET n == Len(lst) IN
    IF 0 <= idx /\ idx < n THEN [ok |-> TRUE, list |-> [lst EXCEPT ![idx + 1] = score]]
    ELSE IF 0 - n <= idx /\ idx < 0
         THEN [ok |-> TRUE, list |-> [lst EXCEPT ![n + idx + 1] = score]]
    ELSE [ok |-> FALSE, list |-> lst]

ValidScore_Unchecked(score) == TRUE

\* line 177
ValidScore(score) == 1 <= score /\ score <= 10

\* a line that does not parse fails the batch: every score is lost
ProcessLine_Strict(lst, line) ==
    IF ~Contains(line, ":") THEN Nones(Len(lst))
    ELSE
      LET parts == PySplit(line, ":") IN
      IF Len(parts) # 2 THEN Nones(Len(lst))
      ELSE
        LET idx == PyInt(PyRemove(PyStrip(parts[1]), Article))
            numbers == FirstNumber(PyStrip(parts[2]))
        IN IF ~idx.ok THEN Nones(Len(lst))
           ELSE IF numbers = <<>> THEN lst
           ELSE LET score == DigitsVal(numbers) IN
                IF ValidScore(score)
                THEN ListSet(lst, idx.val - 1, score).list
                ELSE lst

\* lines 169-180: one line of the reply. A ValueError (an unpacking of other
\* than two pieces, a non-numeral index) or an IndexError skips the line.
ProcessLine(lst, line) ==
    IF ~Contains(line, ":") THEN lst
    ELSE
      LET parts == PySplit(line, ":") IN
      IF Len(parts) # 2 THEN lst
      ELSE
        LET idx == PyInt(PyRemove(PyStrip(parts[1]), Article))
            numbers == FirstNumber(PyStrip(parts[2]))
        IN IF ~idx.ok THEN lst
           ELSE IF numbers = <<>> THEN lst
           ELSE LET score == DigitsVal(numbers) IN
                IF ValidScore(score)
                THEN ListSet(lst, idx.val - 1, score).list
                ELSE lst

\* Replies are made of these lines. kind says what the line is: "ok" (an index
\* numeral n and a first run of digits v in [1,10]), "range" (v outside
\* [1,10]), "nodigits", "nocolon", "badindex" (no numeral before the colon),
\* "colons" (more than one colon: line 171 cannot unpack the pieces).
ParseLines ==
    <<[text |-> Article \o <<" ", "1", ":", " ", "7">>,
       kind |-> "ok", n |-> 1, v |-> 7],
      [text |-> Article \o <<" ", "2", ":", " ", "b", "a", "n", "a", "n", "a">>,
       kind |-> "nodigits", n |-> 2, v |-> 0],
      [text |-> Article \o <<" ", "3", ":", " ", "1", "5">>,
       kind |-> "range", n |-> 3, v |-> 15],
      [text |-> <<"g", "a", "r", "b", "a", "g", "e", " ", "l", "i", "n", "e">>,
       kind |-> "nocolon", n |-> 0, v |-> 0],
      [text |-> Article \o <<" ", "4", ":", " ", "3">>,
       kind |-> "ok", n |-> 4, v |-> 3],
      [text |-> Article \o <<" ", "x", ":", " ", "5">>,
       kind |-> "badindex", n |-> 0, v |-> 5],
      [text |-> Article \o <<" ", "2", ":", " ", "9", ":", " ", "8">>,
       kind |-> "colons", n |-> 2, v |-> 9]>>

\* The reply of the parser-robustness example:
\* "Article 1: 7\nArticle 2: banana\nArticle 3: 15\ngarbage line\nArticle 4: 3"
ExampleReply == <<1, 2, 3, 4, 5>>

ReplyText(ids) == Join([i \in 1..Len(ids) |-> ParseLines[ids[i]].text])

SeqsUpTo(S, n) == UNION {[1..k -> S] : k \in 0..n}

\* The replies tried: up to n lines of ParseLines, each at most once.
Replies(n) ==
    {r \in SeqsUpTo(1..Len(ParseLines), n) :
        \A i, j \in 1..Len(r) : i # j => r[i] # r[j]}

ParseIdle ==
    /\ p_pc = "idle"
    /\ p_reply = <<>>
    /\ p_n = 0
    /\ p_lines = <<>>
    /\ p_i = 0
    /\ p_scores = <<>>
    /\ p_prev = <<>>

\* The model's reply and the batch length are the inputs.
ParseInit ==
    /\ p_pc = "call"
    /\ p_reply \in Replies(MaxReplyLines)
    /\ p_n \in 1..MaxBatchLen
    /\ p_lines = <<>>
    /\ p_i = 0
    /\ p_scores = <<>>
    /\ p_prev = <<>>

\* lines 165-168
SplitReply ==
    /\ UNCHANGED notParse
    /\ p_pc = "call"
    /\ p_scores' = Nones(p_n)
    /\ p_prev' = Nones(p_n)
    /\ p_lines' = PySplit(PyStrip(ReplyText(p_reply)), "\n")
    /\ p_pc' = "loop"
    /\ UNCHANGED <<p_reply, p_n, p_i>>

\* lines 168-180: one iteration of the loop over the lines
ParseLine ==
    /\ UNCHANGED notParse
    /\ p_pc = "loop"
    /\ p_i < Len(p_lines)
    /\ p_prev' = p_scores
    /\ p_scores' = ProcessLine(p_scores, p_lines[p_i + 1])
    /\ p_i' = p_i + 1
    /\ UNCHANGED <<p_pc, p_reply, p_n, p_lines>>

\* line 182
ReturnScores ==
    /\ UNCHANGED notParse
    /\ p_pc = "loop"
    /\ p_i = Len(p_lines)
    /\ p_pc' = "returned"
    /\ UNCHANGED <<p_reply, p_n, p_lines, p_i, p_scores, p_prev>>

ParseNext == SplitReply \/ ParseLine \/ ReturnScores

\* -------------------------------------------------------- batch_gpt_scoring
\* The lines a scoring reply is made of in SpecScore, with what each is (see
\* ParseLines): n is the numeral before the colon, v the first run of digits
\* after it, value the number written after it, sign included.
ScoreLines ==
    <<[text |-> Article \o <<" ", "1", ":", " ", "7">>,
       kind |-> "ok", n |-> 1, v |-> 7, value |-> 7],
      [text |-> Article \o <<" ", "2", ":", " ", "1", "0">>,
       kind |-> "ok", n |-> 2, v |-> 10, value |-> 10],
      [text |-> <<" ">> \o Article \o <<" ", "3", " ", ":", " ", "1", " ">>,
       kind |-> "ok", n |-> 3, v |-> 1, value |-> 1],
      [text |-> Article \o <<" ", "1", ":", " ", "1", "5">>,
       kind |-> "range", n |-> 1, v |-> 15, value |-> 15],
      [text |-> Article \o <<" ", "2", ":", " ", "0">>,
       kind |-> "range", n |-> 2, v |-> 0, value |-> 0],
      [text |-> Article \o <<" ", "2", ":", " ", "b", "a", "n", "a", "n", "a">>,
       kind |-> "nodigits", n |-> 2, v |-> 0, value |-> 0],
      [text |-> <<"g", "a", "r", "b", "a", "g", "e", " ", "l", "i", "n", "e">>,
       kind |-> "nocolon", n |-> 0, v |-> 0, value |-> 0],
      [text |-> Article \o <<" ", "x", ":", " ", "5">>,
       kind |-> "badindex", n |-> 0, v |-> 5, value |-> 5],
      [text |-> Article \o <<" ", "1", ":", " ", "7", ":", " ", "1", "0">>,
       kind |-> "colons", n |-> 1, v |-> 7, value |-> 7],
      [text |-> Article \o <<" ", "0", ":", " ", "5">>,
       kind |-> "ok", n |-> 0, v |-> 5, value |-> 5],
      [text |-> Article \o <<" ", "-", "1", ":", " ", "1", "0">>,
       kind |-> "ok", n |-> -1, v |-> 10, value |-> 10],
      [text |-> Article \o <<" ", "9", ":", " ", "7">>,
       kind |-> "ok", n |-> 9, v |-> 7, value |-> 7],
      [text |-> Article \o <<" ", "2", ":", " ", "-", "7">>,
       kind |-> "ok", n |-> 2, v |-> 7, value |-> -7]>>

\* line 246: math.ceil(len(df) / batch_size)
n_batches == (Len(df) + batch_size - 1) \div batch_size

\* lines 252-253
start_idx == b * batch_size
Min(x, y) == IF x <= y THEN x ELSE y
end_idx_Unclipped == (b + 1) * batch_size
end_idx == Min((b + 1) * batch_size, Len(df))

\* lines 257-264: the batch passed to process_batch.
ArticleBatch ==
    [start_index |-> start_idx, end_index |-> end_idx, batch_number |-> b + 1]

\* the scores of the batch are written from the start of the list
MergeScores_Absolute(all, batch, start) ==
    [i \in 1..Len(all) |->
        IF i <= Len(batch) /\ batch[i] # NoScore THEN batch[i] ELSE all[i]]

\* lines 272-274: the scores of the batch that are not None go into scores.
MergeScores(all, batch, start) ==
    [i \in 1..Len(all) |->
        IF start < i /\ i <= start + Len(batch) /\ batch[i - start] # NoScore
        THEN batch[i - start]
        ELSE all[i]]

\* The orders of the rows ids by descending col, rows of equal col in any order.
RECURSIVE OrdersDesc(_, _)
OrdersDesc(ids, col) ==
    IF ids = {} THEN {<<>>}
    ELSE LET top == {x \in ids : \A y \in ids : col[x] >= col[y]} IN
         UNION {{<<x>> \o r : r \in OrdersDesc(ids \ {x}, col)} : x \in top}

\* the rows are left in the order they came in
sort_values_Unsorted(rows, col) == {rows}

\* line 282: sort_values(ascending=False) with the default kind, quicksort,
\* which is not stable: the rows with a score by descending score, those of
\* equal score in any order, then the rows without (NaN, na_position 'last')
\* in the order they came in.
sort_values(rows, col) ==
    LET scored == {rows[i] : i \in {j \in 1..Len(rows) : col[rows[j]] # NoScore}}
        nan == SelectSeq(rows, LAMBDA x : col[x] = NoScore)
    IN {o \o nan : o \in OrdersDesc(scored, col)}

ScoreIdle ==
    /\ s_pc = "idle"
    /\ df = <<>>
    /\ has_col = FALSE
    /\ GPT_Pertinence = <<>>
    /\ batch_size = 1
    /\ scores = <<>>
    /\ b = 0
    /\ batch_scores = <<>>
    /\ s_prev = <<>>
    /\ s_line = 0
    /\ s_nlines = 0
    /\ s_failed = 0
    /\ s_submitted = <<>>
    /\ s_sleeps = 0

\* lines 246-250: the frame of articles and the batch size are the inputs:
\* small frames in small batches, and a frame of 22 articles in batches of
\* the default size.
ScoreInit ==
    /\ s_pc = "loop"
    /\ \/ \E n \in 0..MaxArticles :
            /\ df = Range(1, n)
            /\ scores = Nones(n)
            /\ batch_size \in 1..MaxBatchSize
       \/ /\ df = Range(1, 22)
          /\ scores = Nones(22)
          /\ batch_size = DEFAULT_BATCH_SIZE
    /\ has_col = FALSE
    /\ GPT_Pertinence = <<>>
    /\ b = 0
    /\ batch_scores = <<>>
    /\ s_prev = <<>>
    /\ s_line = 0
    /\ s_nlines = 0
    /\ s_failed = 0
    /\ s_submitted = <<>>
    /\ s_sleeps = 0

\* the failure of a batch is skipped over: the next batch is taken
CallFails_NextBatch ==
    /\ UNCHANGED notScore
    /\ s_pc = "loop"
    /\ b < n_batches
    /\ s_failed' = b + 1
    /\ s_submitted' = Append(s_submitted, ArticleBatch)
    /\ b' = b + 1
    /\ UNCHANGED <<s_pc, df, has_col, GPT_Pertinence, batch_size, scores,
                   batch_scores, s_prev, s_line, s_nlines, s_sleeps>>

\* lines 251-269, 158, 184-185, 287-289: the call of the model raises; the
\* frame is returned as it came.
CallFails ==
    /\ UNCHANGED notScore
    /\ s_pc = "loop"
    /\ b < n_batches
    /\ s_failed' = b + 1
    /\ s_submitted' = Append(s_submitted, ArticleBatch)
    /\ s_pc' = "returned"
    /\ UNCHANGED <<df, has_col, GPT_Pertinence, batch_size, scores, b,
                   batch_scores, s_prev, s_line, s_nlines, s_sleeps>>

\* lines 251-269, 158-166: the model replies.
CallReplies ==
    /\ UNCHANGED notScore
    /\ s_pc = "loop"
    /\ b < n_batches
    /\ batch_scores' = Nones(end_idx - start_idx)
    /\ s_prev' = Nones(end_idx - start_idx)
    /\ s_line' = 0
    /\ s_nlines' = 0
    /\ s_pc' = "parse"
    /\ s_submitted' = Append(s_submitted, ArticleBatch)
    /\ UNCHANGED <<df, has_col, GPT_Pertinence, batch_size, scores, b, s_failed,
                   s_sleeps>>

\* lines 168-180: the next line of the reply.
ReadLine ==
    /\ UNCHANGED notScore
    /\ s_pc = "parse"
    /\ s_nlines < MaxLines
    /\ \E l \in 1..Len(ScoreLines) :
         /\ s_line' = l
         /\ batch_scores' = ProcessLine(batch_scores, ScoreLines[l].text)
    /\ s_prev' = batch_scores
    /\ s_nlines' = s_nlines + 1
    /\ UNCHANGED <<s_pc, df, has_col, GPT_Pertinence, batch_size, scores, b,
                   s_failed, s_submitted, s_sleeps>>

\* lines 182, 272-278: the reply is at its end; merge, pause unless the batch
\* was the last, and take the next batch.
MergeBatch ==
    /\ UNCHANGED notScore
    /\ s_pc = "parse"
    /\ scores' = MergeScores(scores, batch_scores, start_idx)
    /\ s_sleeps' = IF b < n_batches - 1 THEN s_sleeps + 1 ELSE s_sleeps
    /\ b' = b + 1
    /\ s_pc' = "loop"
    /\ UNCHANGED <<df, has_col, GPT_Pertinence, batch_size, batch_scores,
                   s_prev, s_line, s_nlines, s_failed, s_submitted>>

\* lines 281-285: after the last batch, the column and the sort.
FinishScoring ==
    /\ UNCHANGED notScore
    /\ s_pc = "loop"
    /\ b = n_batches
    /\ has_col' = TRUE
    /\ GPT_Pertinence' = scores
    /\ df' \in sort_values(df, scores)
    /\ s_pc' = "returned"
    /\ UNCHANGED <<batch_size, scores, b, batch_scores, s_prev, s_line,
                   s_nlines, s_failed, s_submitted, s_sleeps>>

ScoreNext == CallFails \/ CallReplies \/ ReadLine \/ MergeBatch \/ FinishScoring

\* ---------------------------------- generate_bullet_points_for_top_articles
Unset == "unset"
ErrorSummary == "Error generating summary"
SummaryText == "text"

\* The scores of the frames tried: none, the threshold, and above it.
EnrichScores ==
    {NoScore, PERTINENCE_THRESHOLD, PERTINENCE_THRESHOLD + 1,
     PERTINENCE_THRESHOLD + 2}

\* df['GPT_Pertinence'] > 7: the rows that qualify, in row order.
RECURSIVE Qualifying(_, _)
Qualifying(col, from) ==
    IF from > Len(col) THEN <<>>
    ELSE (IF col[from] > PERTINENCE_THRESHOLD THEN <<from>> ELSE <<>>)
             \o Qualifying(col, from + 1)

TopArticles_NoCap(col) == Qualifying(col, 1)

\* line 305: df[df['GPT_Pertinence'] > 7].head(5)
TopArticles(col) ==
    LET q == Qualifying(col, 1) IN SubSeq(q, 1, Min(HEAD_ROWS, Len(q)))

EnrichIdle ==
    /\ e_pc = "idle"
    /\ e_has_col = FALSE
    /\ e_scores = <<>>
    /\ Bullet_Points = <<>>
    /\ top_articles = <<>>
    /\ e_k = 0
    /\ e_attempted = {}
    /\ e_failed = {}

\* The frame is the input: with the column batch_gpt_scoring adds, or without
\* it (batch_gpt_scoring line 289).
EnrichInit ==
    /\ e_pc = "select"
    /\ e_has_col \in BOOLEAN
    /\ \E n \in 0..MaxRows :
         /\ e_scores \in IF e_has_col THEN [1..n -> EnrichScores] ELSE {Nones(n)}
         /\ Bullet_Points = [i \in 1..n |-> Unset]
    /\ top_articles = <<>>
    /\ e_k = 0
    /\ e_attempted = {}
    /\ e_failed = {}

\* line 305
SelectTop ==
    /\ UNCHANGED notEnrich
    /\ e_pc = "select"
    /\ e_has_col
    /\ top_articles' = TopArticles(e_scores)
    /\ e_pc' = "loop"
    /\ UNCHANGED <<e_has_col, e_scores, Bullet_Points, e_k, e_attempted, e_failed>>

\* line 305 without the column: a KeyError, lines 325-327 return the frame.
SelectRaises ==
    /\ UNCHANGED notEnrich
    /\ e_pc = "select"
    /\ ~e_has_col
    /\ e_pc' = "returned"
    /\ UNCHANGED <<e_has_col, e_scores, Bullet_Points, top_articles, e_k,
                   e_attempted, e_failed>>

\* lines 310-318 with lines 199-226: the model returns a summary.
SummaryOk ==
    /\ UNCHANGED notEnrich
    /\ e_pc = "loop"
    /\ e_k < Len(top_articles)
    /\ LET idx == top_articles[e_k + 1] IN
         /\ Bullet_Points' = [Bullet_Points EXCEPT ![idx] = SummaryText]
         /\ e_attempted' = e_attempted \cup {idx}
    /\ e_k' = e_k + 1
    /\ UNCHANGED <<e_pc, e_has_col, e_scores, top_articles, e_failed>>

\* lines 310-318 with lines 228-230: the call of the model raises;
\* generate_bullet_points_summary returns "Error generating summary", which
\* line 317 stores.
SummaryFails ==
    /\ UNCHANGED notEnrich
    /\ e_pc = "loop"
    /\ e_k < Len(top_articles)
    /\ LET idx == top_articles[e_k + 1] IN
         /\ Bullet_Points' = [Bullet_Points EXCEPT ![idx] = ErrorSummary]
         /\ e_attempted' = e_attempted \cup {idx}
         /\ e_failed' = e_failed \cup {idx}
    /\ e_k' = e_k + 1
    /\ UNCHANGED <<e_pc, e_has_col, e_scores, top_articles>>

\* line 323
EnrichReturns ==
    /\ UNCHANGED notEnrich
    /\ e_pc = "loop"
    /\ e_k = Len(top_articles)
    /\ e_pc' = "returned"
    /\ UNCHANGED <<e_has_col, e_scores, Bullet_Points, top_articles, e_k,
                   e_attempted, e_failed>>

EnrichNext ==
    SelectTop \/ SelectRaises \/ SummaryOk \/ SummaryFails \/ EnrichReturns

\* ---------------------------------------------------- refresh_access_token
\* The provider's answer to the refresh: a failure (RequestException) or a
\* token with an optional expires_in.
RefreshReplies ==
    {[ok |-> FALSE, has_expires_in |-> FALSE, expires_in |-> 0],
     [ok |-> TRUE, has_expires_in |-> FALSE, expires_in |-> 0]}
        \cup {[ok |-> TRUE, has_expires_in |-> TRUE, expires_in |-> e] :
                  e \in 0..MaxExpiresIn}

\* lines 45-50: the new access token and its expiry.
refresh_access_token(reply, count, t) ==
    [access_token |-> count + 1,
     token_expiry |-> t + (IF reply.has_expires_in THEN reply.expires_in
                           ELSE DEFAULT_TOKEN_EXPIRY)]

\* ------------------------------------------------------ get_feedly_articles
\* What the expiry check saw: the clock against the expiry, the refresh calls
\* made so far, the token in hand.
Checked ==
    [expired |-> now >= token_expiry, calls |-> refreshCalls,
     refreshes |-> refreshes, token |-> access_token]

\* Requests sent for the page of the request now sent, after a 401 each, before
\* it: one more than for the last request if that was answered 401.
Retried == IF lastReq.status = 401 THEN retries + 1 ELSE 0

\* lines 95-112: the request as sent, with its answer (status, and the
\* continuation a page carries), and the state it was sent in.
Request(status, next) ==
    [cont |-> IF Truthy(continuation) THEN continuation ELSE "-",
     token |-> access_token,
     status |-> status,
     next |-> next,
     articles |-> Len(all_articles),
     pages |-> batch_count,
     check |-> check,
     calls |-> refreshCalls]

NoReq ==
    [cont |-> "-", token |-> -1, status |-> 0, next |-> None, articles |-> 0,
     pages |-> 0, check |-> [expired |-> FALSE, calls |-> 0, refreshes |-> 0,
                             token |-> 0],
     calls |-> 0]

\* What is kept of the request before the last.
Brief(req) ==
    [cont |-> req.cont, token |-> req.token, status |-> req.status,
     articles |-> req.articles, pages |-> req.pages]

FetchIdle ==
    /\ fpc = "idle"
    /\ access_token = 0
    /\ token_expiry = 0
    /\ continuation = None
    /\ all_articles = <<>>
    /\ batch_count = 0
    /\ delivered = <<>>
    /\ now = 0
    /\ nextItem = 1
    /\ refreshes = 0
    /\ refreshCalls = 0
    /\ nreq = 0
    /\ lastReq = NoReq
    /\ prevReq = Brief(NoReq)
    /\ retries = 0
    /\ received = <<>>
    /\ check = NoReq.check

FetchInit ==
    /\ fpc = "top"
    /\ access_token = 0
    /\ token_expiry \in 0..MaxExpiresIn
    /\ continuation = None
    /\ all_articles = <<>>
    /\ batch_count = 0
    /\ delivered = <<>>
    /\ now = 0
    /\ nextItem = 1
    /\ refreshes = 0
    /\ refreshCalls = 0
    /\ nreq = 0
    /\ lastReq = NoReq
    /\ prevReq = Brief(NoReq)
    /\ retries = 0
    /\ received = <<>>
    /\ check = NoReq.check

\* time.time() advances between any two steps.
Tick ==
    /\ UNCHANGED notFetch
    /\ now < MaxTime
    /\ fpc \in {"top", "send"}
    /\ now' = now + 1
    /\ UNCHANGED <<fpc, access_token, token_expiry, continuation, all_articles,
                   batch_count, delivered, nextItem, refreshes, refreshCalls,
                   nreq, lastReq, prevReq, retries, received, check>>

Expired_Strict(t, expiry) == t > expiry

\* line 91: the condition of the proactive refresh.
Expired(t, expiry) == t >= expiry

\* line 91, the expiry has not passed: no refresh.
CheckFresh ==
    /\ UNCHANGED notFetch
    /\ fpc = "top"
    /\ ~Expired(now, token_expiry)
    /\ fpc' = "send"
    /\ check' = Checked
    /\ UNCHANGED <<access_token, token_expiry, continuation, all_articles,
                   batch_count, delivered, now, nextItem, refreshes,
                   refreshCalls, nreq, lastReq, prevReq, retries, received>>

\* lines 91-93, the expiry has passed: refresh, which may raise (lines 53, 133).
CheckExpired ==
    /\ UNCHANGED notFetch
    /\ fpc = "top"
    /\ Expired(now, token_expiry)
    /\ check' = Checked
    /\ \E reply \in RefreshReplies :
         /\ refreshCalls' = refreshCalls + 1
         /\ IF reply.ok
            THEN LET r == refresh_access_token(reply, refreshes, now) IN
                 /\ access_token' = r.access_token
                 /\ token_expiry' = r.token_expiry
                 /\ refreshes' = refreshes + 1
                 /\ fpc' = "send"
            ELSE /\ fpc' = "raised"
                 /\ UNCHANGED <<access_token, token_expiry, refreshes>>
    /\ UNCHANGED <<continuation, all_articles, batch_count, delivered, now,
                   nextItem, nreq, lastReq, prevReq, retries, received>>

On401_Restart(items, cont) ==
    \E reply \in RefreshReplies :
         /\ refreshCalls' = refreshCalls + 1
         /\ IF reply.ok
            THEN LET r == refresh_access_token(reply, refreshes, now) IN
                 /\ access_token' = r.access_token
                 /\ token_expiry' = r.token_expiry
                 /\ refreshes' = refreshes + 1
                 /\ fpc' = "top"
            ELSE /\ fpc' = "raised"
                 /\ UNCHANGED <<access_token, token_expiry, refreshes>>
         /\ continuation' = None
         /\ UNCHANGED <<all_articles, batch_count, delivered>>

\* the refresh is made and its expiry kept, the token in hand is not replaced
On401_KeepToken(items, cont) ==
    \E reply \in RefreshReplies :
         /\ refreshCalls' = refreshCalls + 1
         /\ IF reply.ok
            THEN LET r == refresh_access_token(reply, refreshes, now) IN
                 /\ token_expiry' = r.token_expiry
                 /\ refreshes' = refreshes + 1
                 /\ fpc' = "top"
                 /\ UNCHANGED access_token
            ELSE /\ fpc' = "raised"
                 /\ UNCHANGED <<access_token, token_expiry, refreshes>>
         /\ UNCHANGED <<continuation, all_articles, batch_count, delivered>>

\* lines 114-117: the answer is 401, its body (items, cont) is not read;
\* refresh, which may raise, and go round again.
On401(items, cont) ==
    \E reply \in RefreshReplies :
         /\ refreshCalls' = refreshCalls + 1
         /\ IF reply.ok
            THEN LET r == refresh_access_token(reply, refreshes, now) IN
                 /\ access_token' = r.access_token
                 /\ token_expiry' = r.token_expiry
                 /\ refreshes' = refreshes + 1
                 /\ fpc' = "top"
            ELSE /\ fpc' = "raised"
                 /\ UNCHANGED <<access_token, token_expiry, refreshes>>
         /\ UNCHANGED <<continuation, all_articles, batch_count, delivered>>

Page401 ==
    /\ UNCHANGED notFetch
    /\ fpc = "send"
    /\ nreq < MaxRequests
    /\ nreq' = nreq + 1
    /\ prevReq' = Brief(lastReq)
    /\ lastReq' = Request(401, None)
    /\ retries' = Retried
    /\ \E items \in RejectedItems, cont \in {None, "c2"} : On401(items, cont)
    /\ UNCHANGED <<now, nextItem, received, check>>

OnError_ReturnsPartial ==
    /\ fpc' = "returned"
    /\ delivered' = all_articles
    /\ UNCHANGED <<access_token, token_expiry, continuation, all_articles,
                   batch_count, refreshes, refreshCalls>>

\* line 119 (raise_for_status) or line 108 (a network error): the exception
\* leaves the function (lines 133-135).
OnError ==
    /\ fpc' = "raised"
    /\ UNCHANGED <<access_token, token_expiry, continuation, all_articles,
                   batch_count, delivered, refreshes, refreshCalls>>

PageError ==
    /\ UNCHANGED notFetch
    /\ fpc = "send"
    /\ nreq < MaxRequests
    /\ nreq' = nreq + 1
    /\ prevReq' = Brief(lastReq)
    /\ lastReq' = Request(500, None)
    /\ retries' = Retried
    /\ OnError
    /\ UNCHANGED <<now, nextItem, received, check>>

OnPage_Overwrite(items, cont) ==
    /\ all_articles' = items
    /\ batch_count' = batch_count + 1
    /\ continuation' = cont
    /\ IF ~Truthy(cont)
       THEN /\ fpc' = "returned"
            /\ delivered' = items
       ELSE /\ fpc' = "top"
            /\ UNCHANGED delivered
    /\ UNCHANGED <<access_token, token_expiry, refreshes, refreshCalls>>

\* lines 119-131: a page; extend, count, follow the continuation or return.
OnPage(items, cont) ==
    /\ all_articles' = all_articles \o items
    /\ batch_count' = batch_count + 1
    /\ continuation' = cont
    /\ IF ~Truthy(cont)
       THEN /\ fpc' = "returned"
            /\ delivered' = all_articles \o items
       ELSE /\ fpc' = "top"
            /\ UNCHANGED delivered
    /\ UNCHANGED <<access_token, token_expiry, refreshes, refreshCalls>>

PageOK ==
    /\ UNCHANGED notFetch
    /\ fpc = "send"
    /\ nreq < MaxRequests
    /\ \E k \in 0..MaxPageItems, cont \in Continuations :
         LET items == Range(nextItem, k) IN
         /\ nreq' = nreq + 1
         /\ prevReq' = Brief(lastReq)
         /\ lastReq' = Request(200, cont)
         /\ retries' = Retried
         /\ nextItem' = nextItem + k
         /\ received' = received \o items
         /\ OnPage(items, cont)
    /\ UNCHANGED <<now, check>>

FetchNext == Tick \/ CheckFresh \/ CheckExpired \/ Page401 \/ PageError \/ PageOK

\* ------------------------------------ fetch_and_process_articles and the UI
\* A frame is [loaded, has_col, rows]: loaded is FALSE for None, has_col says
\* whether it has a GPT_Pertinence column, and a row is
\* [idx, Title, GPT_Pertinence, Bullet_Points], idx being its index label.
NoFrame == [loaded |-> FALSE, has_col |-> FALSE, rows |-> <<>>]

\* pd.DataFrame()
EmptyFrame == [loaded |-> TRUE, has_col |-> FALSE, rows |-> <<>>]

\* The Titles of the raw items.
Titles == {"a", "b"}

\* The scores a scoring run gives: none, and one above the threshold.
AppScores == {NoScore, PERTINENCE_THRESHOLD + 1}

\* main.py lines 113-114: one row per raw item, labelled by its position.
extract_article_data(titles) ==
    [i \in 1..Len(titles) |->
        [idx |-> i, Title |-> titles[i], GPT_Pertinence |-> NoScore,
         Bullet_Points |-> Unset]]

\* The rows of a frame at the positions of keep, in row order.
RECURSIVE RowsAt(_, _, _)
RowsAt(rows, keep, from) ==
    IF from > Len(rows) THEN <<>>
    ELSE (IF from \in keep THEN <<rows[from]>> ELSE <<>>)
             \o RowsAt(rows, keep, from + 1)

drop_duplicates_KeepLast(rows) ==
    RowsAt(rows,
           {i \in 1..Len(rows) :
               \A j \in (i + 1)..Len(rows) : rows[j].Title # rows[i].Title},
           1)

\* main.py line 117: drop_duplicates(subset=['Title'], keep='first')
drop_duplicates(rows) ==
    RowsAt(rows,
           {i \in 1..Len(rows) :
               \A j \in 1..(i - 1) : rows[j].Title # rows[i].Title},
           1)

AppIdle ==
    /\ a_pc = "off"
    /\ articles_df = NoFrame
    /\ linkedin_posts = {}
    /\ before = [articles_df |-> NoFrame, linkedin_posts |-> {}]
    /\ n_errors = 0
    /\ m_articles = <<>>
    /\ m_df = NoFrame
    /\ m_result = "none"
    /\ m_failed = FALSE

\* app.py lines 201-204: a fresh session.
AppInit ==
    /\ a_pc = "idle"
    /\ articles_df = NoFrame
    /\ linkedin_posts = {}
    /\ before = [articles_df |-> NoFrame, linkedin_posts |-> {}]
    /\ n_errors = 0
    /\ m_articles = <<>>
    /\ m_df = NoFrame
    /\ m_result = "none"
    /\ m_failed = FALSE

\* app.py lines 240-254: the click resets the session state and calls
\* fetch_and_process_articles.
Click ==
    /\ UNCHANGED notApp
    /\ a_pc = "idle"
    /\ before' = [articles_df |-> articles_df, linkedin_posts |-> linkedin_posts]
    /\ articles_df' = NoFrame
    /\ linkedin_posts' = {}
    /\ n_errors' = 0
    /\ m_articles' = <<>>
    /\ m_df' = NoFrame
    /\ m_result' = "none"
    /\ m_failed' = FALSE
    /\ a_pc' = "fetch"

\* main.py lines 98-106, 133-135 and app.py lines 266-267: get_feedly_articles
\* raises, fetch_and_process_articles re-raises, the UI shows the error.
FetchRaises ==
    /\ UNCHANGED notApp
    /\ a_pc = "fetch"
    /\ m_result' = "raised"
    /\ n_errors' = n_errors + 1
    /\ a_pc' = "idle"
    /\ UNCHANGED <<articles_df, linkedin_posts, before, m_articles, m_df,
                   m_failed>>

\* main.py lines 108-110 and app.py line 254: no article, an empty frame.
FetchEmpty ==
    /\ UNCHANGED notApp
    /\ a_pc = "fetch"
    /\ m_df' = EmptyFrame
    /\ m_result' = "returned"
    /\ articles_df' = EmptyFrame
    /\ a_pc' = "idle"
    /\ UNCHANGED <<linkedin_posts, before, n_errors, m_articles, m_failed>>

\* main.py lines 98-121: the articles fetched, mapped and deduplicated.
FetchReturns ==
    /\ UNCHANGED notApp
    /\ a_pc = "fetch"
    /\ \E k \in 1..MaxItems : m_articles' \in [1..k -> Titles]
    /\ m_df' = [loaded |-> TRUE, has_col |-> FALSE,
                rows |-> drop_duplicates(extract_article_data(m_articles'))]
    /\ a_pc' = "score"
    /\ UNCHANGED <<articles_df, linkedin_posts, before, n_errors, m_result,
                   m_failed>>

ScoringFails_Raises ==
    /\ UNCHANGED notApp
    /\ a_pc = "score"
    /\ m_failed' = TRUE
    /\ m_result' = "raised"
    /\ n_errors' = n_errors + 1
    /\ a_pc' = "idle"
    /\ UNCHANGED <<articles_df, linkedin_posts, before, m_articles, m_df>>

\* main.py line 125 with rank_openai.py lines 287-289: a batch raises and
\* batch_gpt_scoring returns the frame as it came.
ScoringFails ==
    /\ UNCHANGED notApp
    /\ a_pc = "score"
    /\ m_failed' = TRUE
    /\ a_pc' = "enrich"
    /\ UNCHANGED <<articles_df, linkedin_posts, before, n_errors, m_articles,
                   m_df, m_result>>

\* The labels of the rows, in row order.
Labels(rows) == [i \in 1..Len(rows) |-> rows[i].idx]

\* The row labelled x.
RowOf(rows, x) == rows[CHOOSE i \in 1..Len(rows) : rows[i].idx = x]

\* main.py line 125 with rank_openai.py lines 281-285: every batch is scored;
\* the scores go into the column row by row and the frame is sorted.
ScoringDone ==
    /\ UNCHANGED notApp
    /\ a_pc = "score"
    /\ \E col \in [1..Len(m_df.rows) -> AppScores] :
         LET scored == [i \in 1..Len(m_df.rows) |->
                           [m_df.rows[i] EXCEPT !.GPT_Pertinence = col[i]]]
             byLabel == [x \in {scored[i].idx : i \in 1..Len(scored)} |->
                            RowOf(scored, x).GPT_Pertinence]
         IN \E o \in sort_values(Labels(scored), byLabel) :
              m_df' = [loaded |-> TRUE, has_col |-> TRUE,
                       rows |-> [k \in 1..Len(o) |-> RowOf(scored, o[k])]]
    /\ a_pc' = "enrich"
    /\ UNCHANGED <<articles_df, linkedin_posts, before, n_errors, m_articles,
                   m_result, m_failed>>

\* The GPT_Pertinence column of a frame, in row order.
Column(frame) == [i \in 1..Len(frame.rows) |-> frame.rows[i].GPT_Pertinence]

\* main.py lines 129-131 with rank_openai.py lines 303-327, and app.py lines
\* 254-265: without the column line 305 raises a KeyError and the frame is
\* returned as it is; with it each selected row gets the summary or the error
\* text. The frame returned goes into the session state.
EnrichReturns_App ==
    /\ UNCHANGED notApp
    /\ a_pc = "enrich"
    /\ IF ~m_df.has_col THEN m_df' = m_df
       ELSE LET top == TopArticles(Column(m_df))
                sel == {top[i] : i \in 1..Len(top)}
            IN \E text \in [sel -> {SummaryText, ErrorSummary}] :
                 m_df' = [m_df EXCEPT !.rows =
                            [i \in 1..Len(m_df.rows) |->
                                IF i \in sel
                                THEN [m_df.rows[i] EXCEPT !.Bullet_Points = text[i]]
                                ELSE m_df.rows[i]]]
    /\ m_result' = "returned"
    /\ articles_df' = m_df'
    /\ a_pc' = "idle"
    /\ UNCHANGED <<linkedin_posts, before, n_errors, m_articles, m_failed>>

\* app.py lines 333-343: a post is generated for one of the top stories and
\* kept under the article's key.
GeneratePost ==
    /\ UNCHANGED notApp
    /\ a_pc = "idle"
    /\ articles_df.loaded
    /\ articles_df.has_col
    /\ LET top == TopArticles(Column(articles_df)) IN
       \E i \in 1..Len(top) :
         /\ articles_df.rows[top[i]].idx \notin linkedin_posts
         /\ linkedin_posts' = linkedin_posts \cup {articles_df.rows[top[i]].idx}
    /\ UNCHANGED <<a_pc, articles_df, before, n_errors, m_articles, m_df,
                   m_result, m_failed>>

AppNext ==
    \/ Click
    \/ FetchRaises
    \/ FetchEmpty
    \/ FetchReturns
    \/ ScoringFails
    \/ ScoringDone
    \/ EnrichReturns_App
    \/ GeneratePost

InitFetch == FetchInit /\ ParseIdle /\ ScoreIdle /\ EnrichIdle /\ AppIdle

SpecFetch == InitFetch /\ [][FetchNext]_vars

InitParse == FetchIdle /\ ParseInit /\ ScoreIdle /\ EnrichIdle /\ AppIdle

SpecParse == InitParse /\ [][ParseNext]_vars

InitScore == FetchIdle /\ ParseIdle /\ ScoreInit /\ EnrichIdle /\ AppIdle

InitEnrich == FetchIdle /\ ParseIdle /\ ScoreIdle /\ EnrichInit /\ AppIdle

SpecEnrich == InitEnrich /\ [][EnrichNext]_vars

SpecScore == InitScore /\ [][ScoreNext]_vars

InitApp == FetchIdle /\ ParseIdle /\ ScoreIdle /\ EnrichIdle /\ AppInit

SpecApp == InitApp /\ [][AppNext]_vars

\* ---------------------------------------------------------- scoring claims

\* The score the frame carries for article i, NoScore if it has no column.
Carried(i) == IF has_col THEN GPT_Pertinence[i] ELSE NoScore

\* C4: when a batch has failed, the frame returned carries every score of the
\* batches before it.
C4_ScoresRetained ==
    (s_pc = "returned" /\ s_failed > 0) =>
        \A i \in 1..Len(scores) : scores[i] # NoScore => Carried(i) = scores[i]

InRange(x) == x = NoScore \/ (1 <= x /\ x <= 10)

\* C6 (amended): every score process_batch writes and batch_gpt_scoring
\* merges is None or in 1..10; a line whose first run of digits after the
\* colon is out of range, or that has no digits, changes no score, and a score
\* that changes is that first run of digits of the line read.
C6_ScoreRange ==
    /\ \A i \in 1..Len(batch_scores) : InRange(batch_scores[i])
    /\ \A i \in 1..Len(scores) : InRange(scores[i])
    /\ \A i \in 1..Len(GPT_Pertinence) : InRange(GPT_Pertinence[i])
    /\ s_line # 0 =>
         LET l == ScoreLines[s_line] IN
         /\ l.kind \in {"range", "nodigits"} => batch_scores = s_prev
         /\ \A i \in 1..Len(batch_scores) :
              batch_scores[i] # s_prev[i] => l.kind = "ok" /\ batch_scores[i] = l.v

\* C6 as first stated: a line whose value is out of range, or that has no
\* digits, changes no score.
C6_OutOfRangeUnset ==
    /\ \A i \in 1..Len(batch_scores) : InRange(batch_scores[i])
    /\ \A i \in 1..Len(scores) : InRange(scores[i])
    /\ \A i \in 1..Len(GPT_Pertinence) : InRange(GPT_Pertinence[i])
    /\ s_line # 0 =>
         LET l == ScoreLines[s_line] IN
         (l.kind = "nodigits"
             \/ (l.kind \in {"ok", "range"} /\ ~(1 <= l.value /\ l.value <= 10)))
           => batch_scores = s_prev

\* C6 witness: the frame carries a score, and the last line read for the last
\* batch had a value out of range.
C6_Witness ==
    /\ s_pc = "returned"
    /\ has_col
    /\ GPT_Pertinence = <<7, NoScore>>
    /\ s_line # 0
    /\ ScoreLines[s_line].kind = "range"
    /\ ScoreLines[s_line].n = 2

\* The score of the row at position i of the frame returned.
RowScore(i) == GPT_Pertinence[df[i]]

\* C11: when every batch was scored, the rows returned are in descending order
\* of score, an unset score counting as the lowest: no row has a higher score
\* than the row before it, and no row with a score comes after a row without.
C11_SortedDescending ==
    (s_pc = "returned" /\ s_failed = 0) =>
        /\ has_col
        /\ {df[i] : i \in 1..Len(df)} = 1..Len(scores)
        /\ \A i \in 1..(Len(df) - 1) : RowScore(i) >= RowScore(i + 1)
        /\ \A i \in 1..Len(df) :
              RowScore(i) = NoScore =>
                  \A j \in (i + 1)..Len(df) : RowScore(j) = NoScore

\* C11 witness: three articles scored None, 10 and 7 in two batches come back
\* in the order second, third, first.
C11_Witness ==
    /\ s_pc = "returned"
    /\ s_failed = 0
    /\ batch_size = 2
    /\ GPT_Pertinence = <<NoScore, 10, 7>>
    /\ df = <<2, 3, 1>>

\* C12: the sort is stable: two rows of equal score (both unset included) come
\* back in the relative order they came in, which is the order of their ids.
C12_StableSort ==
    (s_pc = "returned" /\ s_failed = 0) =>
        \A i, j \in 1..Len(df) :
            (i < j /\ RowScore(i) = RowScore(j)) => df[i] < df[j]

\* The articles (1-based positions in the frame passed in) of a batch.
Members(a) == (a.start_index + 1)..a.end_index

\* ceil(n / size)
CeilDiv(n, size) == CHOOSE m \in 0..n : m * size >= n /\ (m - 1) * size < n

\* C15: the batches are submitted in order, batch k starts at (k-1)*batchSize
\* and holds batchSize articles, the last one the rest; when all batches are
\* done there were ceil(n/batchSize) of them and every article is in exactly
\* one; the list process_batch fills has the length of its batch, and its
\* score at position i is merged into article (k-1)*batchSize + i. With 22
\* articles and batchSize 15 the batches hold the articles 1..15 and 16..22.
C15_BatchPartition ==
    LET n == Len(df)
        total == CeilDiv(n, batch_size)
    IN
    /\ Len(s_submitted) <= total
    /\ \A k \in 1..Len(s_submitted) :
         LET a == s_submitted[k] IN
         /\ a.batch_number = k
         /\ a.start_index = (k - 1) * batch_size
         /\ Cardinality(Members(a)) =
                IF k < total THEN batch_size ELSE n - (total - 1) * batch_size
         /\ Cardinality(Members(a)) \in 1..batch_size
    /\ (s_pc = "returned" /\ s_failed = 0) =>
         /\ Len(s_submitted) = total
         /\ \A i \in 1..n :
              Cardinality({k \in 1..total : i \in Members(s_submitted[k])}) = 1
    /\ s_pc = "parse" =>
         Len(batch_scores) = Cardinality(Members(s_submitted[Len(s_submitted)]))
    /\ (s_pc # "parse" /\ b > 0) =>
         \A i \in 1..Len(batch_scores) :
             batch_scores[i] # NoScore =>
                 scores[(b - 1) * batch_size + i] = batch_scores[i]
    /\ (n = 22 /\ batch_size = 15) =>
         \A k \in 1..Len(s_submitted) :
             Members(s_submitted[k]) = IF k = 1 THEN 1..15 ELSE 16..22

\* C15 witness: 22 articles scored in batches of 15 and 7, a score of the
\* second batch merged.
C15_Witness ==
    /\ s_pc = "returned"
    /\ s_failed = 0
    /\ Len(df) = 22
    /\ batch_size = 15
    /\ Len(s_submitted) = 2
    /\ scores[16] = 7
    /\ scores[1] = NoScore

\* C17: a line 'Article n: s' with a valid score s sets the score of the n-th
\* article of the batch when 1 <= n <= the batch length, and changes no score
\* when n is 0, negative or greater than the batch length.
C17_IndexInBatch ==
    s_line # 0 =>
        LET l == ScoreLines[s_line] IN
        l.kind = "ok" =>
            IF 1 <= l.n /\ l.n <= Len(batch_scores)
            THEN batch_scores = [s_prev EXCEPT ![l.n] = l.v]
            ELSE batch_scores = s_prev

\* C18: a step changes the scores of no article outside the batch in hand:
\* whatever the reply to a batch holds, the scores of the other batches stay.
C18_BatchFrame ==
    [][\A i \in 1..Len(scores) :
          (i <= start_idx \/ i > end_idx) => scores'[i] = scores[i]]_vars

\* C18 witness: of three articles in batches of two, the first was scored 7
\* in batch 1 and the reply to batch 2 ended with 'Article 0: 5', which scored
\* the third.
C18_Witness ==
    /\ s_pc = "loop"
    /\ b = 2
    /\ batch_size = 2
    /\ s_line # 0
    /\ ScoreLines[s_line].n = 0
    /\ scores = <<7, NoScore, 5>>

\* C19: batch k is submitted when the k-1 batches before it have returned
\* and none has failed; when a batch fails the function returns: no batch is
\* submitted after it and no pause is taken after it.
C19_SequentialStop ==
    /\ \A k \in 1..Len(s_submitted) : s_submitted[k].batch_number = k
    /\ Len(s_submitted) = b + (IF s_pc = "parse" \/ s_failed > 0 THEN 1 ELSE 0)
    /\ s_sleeps <= b
    /\ s_failed > 0 =>
         /\ s_pc = "returned"
         /\ Len(s_submitted) = s_failed
         /\ b = s_failed - 1
         /\ s_sleeps = s_failed - 1
         /\ ~ENABLED ScoreNext

\* C19 witness: of three batches the first returned, the second failed.
C19_Witness ==
    /\ s_pc = "returned"
    /\ s_failed = 2
    /\ s_sleeps = 1
    /\ Len(df) = 3
    /\ batch_size = 1
    /\ scores[1] # NoScore

\* ------------------------------------------------------- enrichment claims

\* The rows that carry bullet points, and the rows whose score is above 7.
Enriched == {r \in 1..Len(Bullet_Points) : Bullet_Points[r] # Unset}
Above7 == {r \in 1..Len(e_scores) : e_scores[r] > 7}

\* C5: a row whose call of the model failed has no bullet points, and every
\* selected row is attempted.
C5_IsolatedFailure ==
    /\ \A r \in e_failed : Bullet_Points[r] = Unset
    /\ e_pc = "returned" =>
         e_attempted = {top_articles[i] : i \in 1..Len(top_articles)}

\* C10: at most 5 rows carry bullet points, each with a score above 7; on
\* return they are the first min(5, q) of the q rows above 7 in row order, and
\* in a frame sorted by descending score no row above 7 left without bullet
\* points has a higher score than a row that carries them.
C10_EnrichmentCap ==
    /\ Cardinality(Enriched) <= 5
    /\ \A r \in Enriched : e_has_col /\ r \in Above7
    /\ (e_pc = "returned" /\ e_has_col) =>
         /\ Cardinality(Enriched) = Min(5, Cardinality(Above7))
         /\ \A r \in Enriched, q \in Above7 \ Enriched : r < q
    /\ (\A i \in 1..(Len(e_scores) - 1) : e_scores[i] >= e_scores[i + 1]) =>
         \A r \in Enriched, q \in Above7 \ Enriched : e_scores[q] <= e_scores[r]

\* C10 witness: six rows above 7, the first five enriched, the sixth, with the
\* highest score, not.
C10_Witness ==
    /\ e_pc = "returned"
    /\ Cardinality(Above7) = 6
    /\ Enriched = 1..5
    /\ e_scores[1] = 8
    /\ e_scores[6] = 9

\* --------------------------------------------------- pipeline and UI claims

\* The first raw item whose Title is t.
FirstWith(t) ==
    CHOOSE i \in 1..Len(m_articles) :
        m_articles[i] = t /\ \A j \in 1..(i - 1) : m_articles[j] # t

\* C13: after normalization no two rows have the same Title; every Title
\* fetched has its row, which is the row of the first raw item with that
\* Title; every row is the row of a raw item; and the rows are in the order
\* of their raw items. The Titles stay distinct in the frame from then on.
C13_Deduplicated ==
    LET rows == m_df.rows IN
    /\ \A i, j \in 1..Len(rows) : i # j => rows[i].Title # rows[j].Title
    /\ a_pc = "score" =>
         /\ \A k \in 1..Len(m_articles) :
              \E i \in 1..Len(rows) :
                  /\ rows[i].Title = m_articles[k]
                  /\ rows[i].idx = FirstWith(m_articles[k])
         /\ \A i \in 1..Len(rows) :
              /\ rows[i].idx \in 1..Len(m_articles)
              /\ rows[i].Title = m_articles[rows[i].idx]
         /\ \A i, j \in 1..Len(rows) : i < j => rows[i].idx < rows[j].idx

\* C13 witness: of the items titled a, b, a the first and the second remain.
C13_Witness ==
    /\ a_pc = "score"
    /\ m_articles = <<"a", "b", "a">>
    /\ Labels(m_df.rows) = <<1, 2>>

\* C14: when the fetch started by a click has failed, the UI has shown one
\* error message and the session state (the article table, the LinkedIn
\* posts) is what it was when the button was clicked.
C14_ErrorLeavesState ==
    (a_pc = "idle" /\ m_result = "raised") =>
        /\ n_errors = 1
        /\ articles_df = before.articles_df
        /\ linkedin_posts = before.linkedin_posts

\* C16: a run in which a scoring batch raised does not raise: it returns a
\* frame, shown with no error message, that holds every deduplicated article.
C16_ScoringFailureReturns ==
    m_failed =>
        /\ m_result # "raised"
        /\ n_errors = 0
        /\ a_pc = "idle" =>
             /\ m_result = "returned"
             /\ m_df.loaded
             /\ articles_df = m_df
             /\ m_df.rows = drop_duplicates(extract_article_data(m_articles))

\* C16 witness: two distinct articles were fetched, the scoring failed, and
\* the run returned.
C16_Witness ==
    /\ m_failed
    /\ a_pc = "idle"
    /\ m_result = "returned"
    /\ Len(articles_df.rows) = 2

\* ------------------------------------------------------------ parse claims

\* C7: a line that does not parse (no colon, no numeral index, a score out of
\* range, no digits) leaves every score as it was, a line that parses sets
\* the score of its index only, and the example reply on a batch of four
\* yields [7, None, None, 3].
C7_ParserRobust ==
    /\ (p_pc = "returned" /\ p_reply = ExampleReply /\ p_n = 4)
           => p_scores = <<7, NoScore, NoScore, 3>>
    /\ (p_i > 0 /\ p_reply # <<>>) =>
         LET l == ParseLines[p_reply[p_i]] IN
         IF l.kind = "ok" /\ l.n <= p_n
         THEN p_scores = [p_prev EXCEPT ![l.n] = l.v]
         ELSE p_scores = p_prev
    /\ p_pc = "returned" => p_i = Len(p_lines) /\ Len(p_scores) = p_n

\* C7 witness: the example reply was parsed to the end.
C7_Witness ==
    /\ p_pc = "returned"
    /\ p_reply = ExampleReply
    /\ p_n = 4
    /\ p_i = 5
    /\ p_scores = <<7, NoScore, NoScore, 3>>

\* ------------------------------------------------------------ fetch claims

\* C1: a 401 answer appends nothing and does not advance the page counter,
\* the credential is refreshed, and the request sent next carries the same
\* continuation as the rejected one.
C1_RetrySamePage ==
    /\ lastReq.status = 401 =>
         /\ Len(all_articles) = lastReq.articles
         /\ batch_count = lastReq.pages
         /\ refreshCalls > lastReq.calls
         /\ fpc # "raised" => access_token > lastReq.token
    /\ prevReq.status = 401 =>
         /\ lastReq.cont = prevReq.cont
         /\ lastReq.articles = prevReq.articles
         /\ lastReq.pages = prevReq.pages
         /\ lastReq.token > prevReq.token

\* C1 witness: the second page was rejected and its retry served.
C1_Witness ==
    /\ prevReq.status = 401
    /\ prevReq.cont = "c1"
    /\ prevReq.articles > 0
    /\ lastReq.status = 200

\* C2: a page request is re-sent after a 401 at most once: no request is the
\* second retry of its page.
C2_AtMostOneRetry == retries <= 1

\* C3: the fetch returns exactly when a page carries no continuation, and
\* what it returns is the concatenation of the pages' items in request order.
C3_Pagination ==
    /\ all_articles = received
    /\ (lastReq.status = 200 /\ ~Truthy(lastReq.next)) <=> fpc = "returned"
    /\ fpc = "returned" => delivered = received /\ ~ENABLED FetchNext

\* C3 witness: two pages of two items, returned.
C3_Witness ==
    /\ fpc = "returned"
    /\ batch_count = 2
    /\ delivered = <<1, 2, 3, 4>>

\* C8: a request is preceded by exactly one refresh, whose token it carries,
\* when the expiry had passed at the check, and by none when it had not.
C8_ProactiveRefresh ==
    nreq > 0 =>
        IF lastReq.check.expired
        THEN /\ lastReq.calls = lastReq.check.calls + 1
             /\ lastReq.token = lastReq.check.refreshes + 1
        ELSE /\ lastReq.calls = lastReq.check.calls
             /\ lastReq.token = lastReq.check.token

\* C8 witness: a first page sent on the caller's token, a second one after
\* the token expired.
C8_Witness ==
    /\ nreq = 2
    /\ prevReq.status = 200
    /\ prevReq.token = 0
    /\ lastReq.check.expired
    /\ lastReq.check.token = 0
    /\ lastReq.token = 1

\* C20: the token in hand is the caller's until the first refresh and from
\* then on the token of the latest refresh, and every request carries the
\* token in hand: the token of the latest refresh made before it; the token
\* and the expiry change only by a refresh, to what that refresh returned, and
\* the expiry check compares the clock with the expiry in hand.
C20_LatestCredential ==
    /\ [](/\ access_token = refreshes
          /\ nreq > 0 =>
               /\ lastReq.token = lastReq.calls
               /\ lastReq.calls > 0 => lastReq.token # 0)
    /\ [][/\ refreshes' # refreshes =>
               \E reply \in RefreshReplies :
                   /\ reply.ok
                   /\ refreshes' = refreshes + 1
                   /\ LET r == refresh_access_token(reply, refreshes, now) IN
                        /\ access_token' = r.access_token
                        /\ token_expiry' = r.token_expiry
          /\ refreshes' = refreshes => UNCHANGED <<access_token, token_expiry>>
          /\ check' # check => check'.expired = (now >= token_expiry)]_vars

\* C20 witness: a page request served on the token of the second refresh, one
\* refresh made at the expiry check and one after a 401.
C20_Witness ==
    /\ nreq = 2
    /\ prevReq.status = 401
    /\ prevReq.token = 1
    /\ lastReq.status = 200
    /\ lastReq.token = 2
    /\ ~lastReq.check.expired

\* C9: after a non-401 error or a failed refresh the fetch has raised, the
\* caller holds no item, and nothing more is sent.
C9_ErrorDiscards ==
    /\ (lastReq.status = 500 \/ refreshCalls # refreshes) => fpc = "raised"
    /\ fpc = "raised" => delivered = <<>> /\ ~ENABLED FetchNext

\* C9 witness: a page of items was accumulated, then a request failed.
C9_Witness ==
    /\ fpc = "raised"
    /\ lastReq.status = 500
    /\ Len(all_articles) = 2

====
